---- MODULE Spec2Model ----
(***************************************************************************)
(* Session lifecycle of the MCP server template:                           *)
(*   server/src/utils/session.ts  (SessionManager)                         *)
(*   server/src/server.ts         (the /mcp handler, the cleanup timer,    *)
(*                                 the shutdown handler)                   *)
(*                                                                         *)
(* Two specifications share the SessionManager operators:                  *)
(*   SpecSM  the SessionManager class driven through its public methods    *)
(*           with arbitrary arguments;                                     *)
(*   Spec    the server: concurrent /mcp requests, the periodic sweep and  *)
(*           the shutdown handler, interleaved at the handlers' awaits.    *)
(***************************************************************************)
EXTENDS Integers, Sequences, FiniteSets, TLC

\* ------------------------------------------------------------------ bounds
\* session ids the SessionManager harness passes to create/get/delete
NumIds == 2
\* distinct (server, transport) objects the harness passes to create
NumObjs == 2
\* the clock runs over 0..MaxTime
MaxTime == 2
\* largest maxAge the harness passes to cleanup
MaxAgeArg == 1
\* /mcp requests of one run of the server
MaxReq == 3

\* SESSION_MAX_AGE is read from the environment (default 3600000 ms); the
\* model's clock counts in units of that age.
SESSION_MAX_AGE == 1

\* ------------------------------------------------------- the sessions Map
\* this.sessions is a JavaScript Map: a list of entries in insertion order.
\* An entry is [id |-> key, data |-> SessionData].

\* "undefined", the result of get on a key that is not in the Map
Absent == [absent |-> TRUE]

SessionData(server, transport, createdAt) ==
    [server |-> server, transport |-> transport, createdAt |-> createdAt]

MapKeys(m) == {m[i].id : i \in 1..Len(m)}

MapHas(m, id) == id \in MapKeys(m)

MapIndex(m, id) == CHOOSE i \in 1..Len(m) : m[i].id = id

\* Map.prototype.get
MapGet(m, id) == IF MapHas(m, id) THEN m[MapIndex(m, id)].data ELSE Absent

\* Map.prototype.set: an existing key keeps its place and gets the new value
MapSet(m, id, data) ==
    IF MapHas(m, id)
    THEN [m EXCEPT ![MapIndex(m, id)] = [id |-> id, data |-> data]]
    ELSE Append(m, [id |-> id, data |-> data])

RemoveAt(m, i) == SubSeq(m, 1, i - 1) \o SubSeq(m, i + 1, Len(m))

\* faulty variant: delete drops the newest entry instead of the entry of the key
MapDeleteLast(m, id) == IF MapHas(m, id) THEN RemoveAt(m, Len(m)) ELSE m

\* Map.prototype.delete
MapDelete(m, id) == IF MapHas(m, id) THEN RemoveAt(m, MapIndex(m, id)) ELSE m

\* faulty variant: the iterator is an index into the list, which a deletion
\* does not move
IterAfterKeepsIndex(m, it, m2) == it

\* A live Map iterator is the number of live entries it has already passed.
\* When entries are deleted while it is open (m becomes m2), the entries it
\* has passed and that were deleted no longer count, so that no later entry
\* is skipped or visited twice; entries appended meanwhile are visited.
IterAfter(m, it, m2) == Cardinality({i \in 1..it : MapHas(m2, m[i].id)})

\* --------------------------------------------------------- SessionManager
\* create(sessionId, server, transport) at clock value t
SM_create(m, id, server, transport, t) ==
    LET sessionData == SessionData(server, transport, t)
    IN  [sessions |-> MapSet(m, id, sessionData),
         threw    |-> FALSE,
         result   |-> sessionData]

\* get(sessionId)
SM_get(m, id) == MapGet(m, id)

\* faulty variant: delete reports success whether or not the id was registered
SM_deleteReportsTrue(m, id) ==
    [sessions |-> MapDelete(m, id), result |-> TRUE]

\* delete(sessionId)
SM_delete(m, id) ==
    LET deleted == MapHas(m, id)
    IN  [sessions |-> MapDelete(m, id), result |-> deleted]

\* the for-of loop of cleanup: i is the entry the iterator stands on
RECURSIVE CleanupLoop(_, _, _, _, _)
CleanupLoop(m, i, tnow, maxAge, cleaned) ==
    IF i > Len(m)
    THEN [sessions |-> m, result |-> cleaned]
    ELSE LET age == tnow - m[i].data.createdAt
         IN  IF age > maxAge
             THEN CleanupLoop(RemoveAt(m, i), i, tnow, maxAge, cleaned + 1)
             ELSE CleanupLoop(m, i + 1, tnow, maxAge, cleaned)

\* faulty variant: a session whose age equals maxAge is removed too
RECURSIVE CleanupLoopInclusive(_, _, _, _, _)
CleanupLoopInclusive(m, i, tnow, maxAge, cleaned) ==
    IF i > Len(m)
    THEN [sessions |-> m, result |-> cleaned]
    ELSE LET age == tnow - m[i].data.createdAt
         IN  IF age >= maxAge
             THEN CleanupLoopInclusive(RemoveAt(m, i), i, tnow, maxAge, cleaned + 1)
             ELSE CleanupLoopInclusive(m, i + 1, tnow, maxAge, cleaned)

SM_cleanupInclusive(m, maxAge, tnow) == CleanupLoopInclusive(m, 1, tnow, maxAge, 0)

\* faulty variant: deleting while iterating skips the entry after a deleted one
RECURSIVE CleanupLoopSkips(_, _, _, _, _)
CleanupLoopSkips(m, i, tnow, maxAge, cleaned) ==
    IF i > Len(m)
    THEN [sessions |-> m, result |-> cleaned]
    ELSE LET age == tnow - m[i].data.createdAt
         IN  IF age > maxAge
             THEN CleanupLoopSkips(RemoveAt(m, i), i + 1, tnow, maxAge, cleaned + 1)
             ELSE CleanupLoopSkips(m, i + 1, tnow, maxAge, cleaned)

SM_cleanupSkips(m, maxAge, tnow) == CleanupLoopSkips(m, 1, tnow, maxAge, 0)

\* cleanup(maxAge) at clock value tnow
SM_cleanup(m, maxAge, tnow) == CleanupLoop(m, 1, tnow, maxAge, 0)

\* count()
SM_count(m) == Len(m)

\* closeAll: does the for-of loop have another entry?
CloseAllHasNext(m, it) == it < Len(m)

\* closeAll: the entry the loop body runs on next
CloseAllEntry(m, it) == m[it + 1]

\* closeAll: this.sessions.clear()
CloseAllClear(m) == << >>

\* ------------------------------------------------------------- JS values
\* String.prototype.startsWith
StartsWith(s, p) == Len(s) >= Len(p) /\ SubSeq(s, 1, Len(p)) = p

\* the places at which p occurs in s
Occurrences(s, p) ==
    {i \in 1..(Len(s) - Len(p) + 1) : SubSeq(s, i, i + Len(p) - 1) = p}

\* String.prototype.replace with a string pattern: the first occurrence only
Replace(s, p, r) ==
    IF Occurrences(s, p) = {}
    THEN s
    ELSE LET i == CHOOSE k \in Occurrences(s, p) :
                      \A j \in Occurrences(s, p) : k <= j
         IN  SubSeq(s, 1, i - 1) \o r \o SubSeq(s, i + Len(p), Len(s))

\* A value of the property `message`: type is its typeof ("undefined" when
\* the object has no such property), str the string when it is one.
JsValue(type, str) == [type |-> type, str |-> str]

\* request.params.arguments: undefined, or an object with or without the
\* property message and with or without another property
ArgsUndefined == [defined |-> FALSE, message |-> JsValue("undefined", ""), extra |-> FALSE]

ArgsObject(message, extra) == [defined |-> TRUE, message |-> message, extra |-> extra]

\* {}
EmptyObject == ArgsObject(JsValue("undefined", ""), FALSE)

\* args || {}
OrEmptyObject(args) == IF args.defined THEN args ELSE EmptyObject

\* a thrown value: its class and its message
Error(class, message) == [class |-> class, message |-> message]

NoError == Error("", "")

\* new Date().toISOString() at clock value t: the ISO 8601 text of t
ToISOString(t) == [iso8601 |-> t]

\* ----------------------------------------------------------------- logger
\* A call of a method of the pino logger: the level is the method, the
\* bindings are the merged object and, for the child logger of
\* createMcpServer, its sessionId.
LogRecord(level, msg, sessionId, toolName, uri, err) ==
    [level |-> level, msg |-> msg, sessionId |-> sessionId, toolName |-> toolName,
     uri |-> uri, err |-> err]

\* the root logger binds no sessionId
NoSessionId == ""

\* ------------------------------------------------------------- types.ts
\* faulty variant: the schema is z.string() without min(1)
EchoToolInputSchema_parseAnyString(x) ==
    IF x.message.type = "undefined"
    THEN [threw |-> TRUE, error |-> Error("ZodError", "Required"), message |-> ""]
    ELSE IF x.message.type # "string"
    THEN [threw |-> TRUE,
          error |-> Error("ZodError", "Expected string, received " \o x.message.type),
          message |-> ""]
    ELSE [threw |-> FALSE, error |-> NoError, message |-> x.message.str]

\* EchoToolInputSchema.parse(x), the schema being
\* z.object({ message: z.string().min(1, 'Message cannot be empty') }):
\* the result keeps the property message only
EchoToolInputSchema_parse(x) ==
    IF x.message.type = "undefined"
    THEN [threw |-> TRUE, error |-> Error("ZodError", "Required"), message |-> ""]
    ELSE IF x.message.type # "string"
    THEN [threw |-> TRUE,
          error |-> Error("ZodError", "Expected string, received " \o x.message.type),
          message |-> ""]
    ELSE IF Len(x.message.str) < 1
    THEN [threw |-> TRUE, error |-> Error("ZodError", "Message cannot be empty"),
          message |-> ""]
    ELSE [threw |-> FALSE, error |-> NoError, message |-> x.message.str]

\* ------------------------------------------------------- readWidgetHtml
ECHO_WIDGET ==
    [id |-> "echo-marquee", title |-> "Echo Marquee", uri |-> "ui://echo-marquee"]

\* What the loader finds: vite is the answer of the Vite dev server to the
\* fetch ("ok", "error": a response that is not ok, "down": the fetch
\* rejects), assets is the state of ASSETS_DIR ("none": no directory,
\* "nofile": no <widgetId>.html in it, "file").
LoaderEnv(vite, assets) == [vite |-> vite, assets |-> assets]

\* faulty variant: in development a failed fetch is the loader's failure
readWidgetHtmlNoFallback(widgetId, nodeEnv, env) ==
    LET url == "http://localhost/" \o widgetId \o ".html"
        fetching == << LogRecord("debug", "Fetching widget HTML from Vite dev server",
                                 NoSessionId, "", url, NoError) >>
    IN  IF nodeEnv = "development"
        THEN IF env.vite = "ok"
             THEN [threw |-> FALSE, html |-> "<vite>" \o widgetId, error |-> NoError,
                   log |-> fetching]
             ELSE [threw |-> TRUE, html |-> "", log |-> fetching,
                   error |-> Error("Error", "Failed to fetch widget HTML")]
        ELSE IF env.assets = "file"
        THEN [threw |-> FALSE, html |-> "<assets>" \o widgetId, error |-> NoError,
              log |-> << >>]
        ELSE [threw |-> TRUE, html |-> "", log |-> << >>,
              error |-> Error("Error", "Widget assets not found")]

\* readWidgetHtml(widgetId): the HTML, or the error it throws.  In development
\* a failed fetch is caught inside and the built assets are read instead.
readWidgetHtml(widgetId, nodeEnv, env) ==
    LET url == "http://localhost/" \o widgetId \o ".html"
        fetching == << LogRecord("debug", "Fetching widget HTML from Vite dev server",
                                 NoSessionId, "", url, NoError) >>
        fetchError == IF env.vite = "error"
                      THEN Error("Error", "Failed to fetch widget HTML")
                      ELSE Error("TypeError", "fetch failed")
        fallback ==
            (IF env.vite = "error"
             THEN Append(fetching, LogRecord("error", "Vite dev server returned error",
                                             NoSessionId, "", url, NoError))
             ELSE fetching) \o
            << LogRecord("warn",
                         "Failed to fetch from Vite dev server, falling back to built assets",
                         NoSessionId, "", "", fetchError) >>
        log == IF nodeEnv = "development" THEN fallback ELSE << >>
    IN  IF nodeEnv = "development" /\ env.vite = "ok"
        THEN [threw |-> FALSE, html |-> "<vite>" \o widgetId, error |-> NoError,
              log |-> Append(fetching,
                             LogRecord("debug", "Successfully fetched widget HTML",
                                       NoSessionId, "", url, NoError))]
        ELSE IF env.assets = "none"
        THEN [threw |-> TRUE, html |-> "", log |-> log,
              error |-> Error("Error", "Widget assets not found")]
        ELSE IF env.assets = "nofile"
        THEN [threw |-> TRUE, html |-> "", log |-> log,
              error |-> Error("Error", "Widget HTML not found: " \o widgetId \o ".html")]
        ELSE [threw |-> FALSE, html |-> "<assets>" \o widgetId, error |-> NoError,
              log |-> log]

\* ------------------------------------------------------ createMcpServer
\* The handlers createMcpServer(sessionId) registers.  A handler returns
\* what it did: threw and error, or result; log, the calls it made of the
\* logger's methods; and whether it ran the schema's parse (parsed), built
\* the tool's output (computed) and how often it called the loader (loads).

echoTool ==
    [name |-> "echo",
     inputSchema |-> [type |-> "object",
                      properties |-> [message |-> [type |-> "string"]],
                      required |-> {"message"}],
     meta |-> [openai_outputTemplate |-> ECHO_WIDGET.uri,
               openai_widgetAccessible |-> TRUE,
               openai_resultCanProduceWidget |-> TRUE]]

\* a handler that has thrown returns nothing
NoResult == [none |-> TRUE]

Handled(threw, error, result, log, parsed, computed, loads) ==
    [threw |-> threw, error |-> error, result |-> result, log |-> log,
     parsed |-> parsed, computed |-> computed, loads |-> loads]

\* ListToolsRequestSchema
ListToolsHandler(sessionId) ==
    Handled(FALSE, NoError, [tools |-> << echoTool >>],
            << LogRecord("debug", "Listing tools", sessionId, "", "", NoError) >>,
            FALSE, FALSE, 0)

\* faulty variant: the descriptor is tagged text/html
ListResourcesHandlerHtml(sessionId) ==
    Handled(FALSE, NoError,
            [resources |-> << [uri |-> ECHO_WIDGET.uri, name |-> ECHO_WIDGET.title,
                               mimeType |-> "text/html"] >>],
            << LogRecord("debug", "Listing resources", sessionId, "", "", NoError) >>,
            FALSE, FALSE, 0)

\* ListResourcesRequestSchema
ListResourcesHandler(sessionId) ==
    Handled(FALSE, NoError,
            [resources |-> << [uri |-> ECHO_WIDGET.uri, name |-> ECHO_WIDGET.title,
                               mimeType |-> "text/html+skybridge"] >>],
            << LogRecord("debug", "Listing resources", sessionId, "", "", NoError) >>,
            FALSE, FALSE, 0)

\* ListResourceTemplatesRequestSchema
ListResourceTemplatesHandler(sessionId) ==
    Handled(FALSE, NoError,
            [resourceTemplates |->
                << [uriTemplate |-> ECHO_WIDGET.uri, name |-> ECHO_WIDGET.title,
                    mimeType |-> "text/html+skybridge",
                    meta |-> [openai_outputTemplate |-> ECHO_WIDGET.uri,
                              openai_widgetAccessible |-> TRUE,
                              openai_resultCanProduceWidget |-> TRUE]] >>],
            << LogRecord("debug", "Listing resource templates", sessionId, "", "",
                         NoError) >>,
            FALSE, FALSE, 0)

\* the tool's output
EchoToolOutput(validatedInput, t) ==
    [echoedMessage |-> validatedInput.message, timestamp |-> ToISOString(t)]

\* faulty variant: the response has no _meta
EchoToolResultNoMeta(validatedInput, output) ==
    [content |-> << [type |-> "text",
                     text |-> "Echoing: \"" \o validatedInput.message \o "\""] >>,
     structuredContent |-> output,
     meta |-> [outputTemplate |->
                  [type |-> "", resource |-> [uri |-> ""]]]]

\* the value the echo tool returns
EchoToolResult(validatedInput, output) ==
    [content |-> << [type |-> "text",
                     text |-> "Echoing: \"" \o validatedInput.message \o "\""] >>,
     structuredContent |-> output,
     meta |-> [outputTemplate |->
                  [type |-> "resource", resource |-> [uri |-> ECHO_WIDGET.uri]]]]

\* faulty variant: the catch block logs and returns nothing
ToolCatchSwallows(sessionId, name, err, log, computed) ==
    Handled(FALSE, NoError, NoResult,
            Append(log, LogRecord("error", "Tool execution failed", sessionId, name,
                                  "", err)),
            TRUE, computed, 0)

\* catch (err) { sessionLogger.error(...); throw err; }
ToolCatch(sessionId, name, err, log, computed) ==
    Handled(TRUE, err, NoResult,
            Append(log, LogRecord("error", "Tool execution failed", sessionId, name,
                                  "", err)),
            TRUE, computed, 0)

\* CallToolRequestSchema at clock value t.  fault: the call of the logger
\* inside the try block, after the output is built, throws.
CallToolHandler(sessionId, name, args, t, fault) ==
    LET invoked == << LogRecord("info", "Tool invoked", sessionId, name, "", NoError) >>
    IN  IF name # "echo"
        THEN LET error == "Unknown tool: " \o name
             IN  Handled(TRUE, Error("Error", error), NoResult,
                         Append(invoked,
                                LogRecord("error", error, sessionId, name, "", NoError)),
                         FALSE, FALSE, 0)
        ELSE LET validatedInput == EchoToolInputSchema_parse(OrEmptyObject(args))
             IN  IF validatedInput.threw
                 THEN ToolCatch(sessionId, name, validatedInput.error, invoked, FALSE)
                 ELSE IF fault
                 THEN ToolCatch(sessionId, name, Error("Error", "fault"), invoked, TRUE)
                 ELSE LET output == EchoToolOutput(validatedInput, t)
                      IN  Handled(FALSE, NoError,
                                  EchoToolResult(validatedInput, output),
                                  Append(invoked,
                                         LogRecord("info", "Tool execution successful",
                                                   sessionId, "", "", NoError)),
                                  TRUE, TRUE, 0)

\* faulty variant: every ui:// URI is served, and a loader failure is
\* answered with empty content
ReadResourceHandlerLenient(sessionId, uri, nodeEnv, env) ==
    LET reading == << LogRecord("debug", "Reading resource", sessionId, "", uri, NoError) >>
    IN  IF StartsWith(uri, "ui://")
        THEN LET html == readWidgetHtml(ECHO_WIDGET.id, nodeEnv, env)
             IN  Handled(FALSE, NoError,
                         [contents |-> << [uri |-> uri,
                                           mimeType |-> "text/html+skybridge",
                                           text |-> html.html] >>],
                         reading \o html.log, FALSE, FALSE, 1)
        ELSE LET error == "Unknown resource: " \o uri
             IN  Handled(TRUE, Error("Error", error), NoResult,
                         Append(reading,
                                LogRecord("error", error, sessionId, "", uri, NoError)),
                         FALSE, FALSE, 0)

\* ReadResourceRequestSchema
ReadResourceHandler(sessionId, uri, nodeEnv, env) ==
    LET reading == << LogRecord("debug", "Reading resource", sessionId, "", uri, NoError) >>
        widgetId == Replace(uri, "ui://", "")
    IN  IF StartsWith(uri, "ui://") /\ widgetId = ECHO_WIDGET.id
        THEN LET html == readWidgetHtml(widgetId, nodeEnv, env)
             IN  IF html.threw
                 THEN Handled(TRUE, html.error, NoResult,
                              (reading \o html.log) \o
                              << LogRecord("error", "Failed to load widget", sessionId,
                                           "", uri, html.error) >>,
                              FALSE, FALSE, 1)
                 ELSE Handled(FALSE, NoError,
                              [contents |-> << [uri |-> uri,
                                                mimeType |-> "text/html+skybridge",
                                                text |-> html.html] >>],
                              (reading \o html.log) \o
                              << LogRecord("info", "Widget resource loaded", sessionId,
                                           "", uri, NoError) >>,
                              FALSE, FALSE, 1)
        ELSE LET error == "Unknown resource: " \o uri
             IN  Handled(TRUE, Error("Error", error), NoResult,
                         Append(reading,
                                LogRecord("error", error, sessionId, "", uri, NoError)),
                         FALSE, FALSE, 0)

\* a request the server has handled, and before the first one.  sid is the
\* id the transport connected to the server has minted, under which the
\* session is registered: every request the server sees arrived with it.
Rpc(sid, method, name, args, fault, uri, env, out) ==
    [sid |-> sid, method |-> method, name |-> name, args |-> args, fault |-> fault,
     uri |-> uri, env |-> env, out |-> out]

NoRpc ==
    Rpc("", "none", "", ArgsUndefined, FALSE, "", LoaderEnv("ok", "file"),
        Handled(FALSE, NoError, NoResult, << >>, FALSE, FALSE, 0))

\* ------------------------------------------------------------------ state
VARIABLES
    sessions,    \* SessionManager.sessions
    now,         \* the clock: Date.now()
    lastOp,      \* SpecSM: the last SessionManager call and what it returned
    created,     \* history: id -> the SessionData its latest create returned,
                 \* for the ids created and since neither deleted, evicted nor cleared
    req,         \* Spec: the /mcp handlers that are running, by slot
    nreq,        \* Spec: the number of requests that have arrived
    lastDone,    \* Spec, history: the last request whose handler has returned
    nextUuid,    \* Spec: the next value of uuidv4()
    registered,  \* Spec, history: the ids the handler has passed to create
    timer,       \* Spec: cleanupInterval, "active" or "cleared"
    shutPc,      \* position of closeAll / of the shutdown handler
    caIt,        \* closeAll: the iterator of its for-of loop
    caStart,     \* Spec, history: the ids registered when closeAll was called
    closeTried,  \* Spec, history: the close() calls of closeAll, [id, ok]
    NODE_ENV,    \* SpecMcp: process.env.NODE_ENV || 'development'
    rpc          \* SpecMcp: the last request an MCP server instance has handled
                 \* and what its handler did

vars == << sessions, now, lastOp, created, req, nreq, nextUuid, registered, lastDone,
           timer, shutPc, caIt, caStart, closeTried, NODE_ENV, rpc >>

srvVars == << req, nreq, nextUuid, registered, lastDone, timer >>

mcpVars == << NODE_ENV, rpc >>

liveIds == DOMAIN created

Restrict(f, S) == [x \in S |-> f[x]]

Op(op, id, arg, ok, n, data) ==
    [op |-> op, id |-> id, arg |-> arg, at |-> now, ok |-> ok, n |-> n, data |-> data]

\* the ids whose session is older than maxAge at clock value tnow
Aged(m, maxAge, tnow) ==
    {m[i].id : i \in {j \in 1..Len(m) : tnow - m[j].data.createdAt > maxAge}}

\* ------------------------------------------------------------------ clock
\* The clock shows only in the ages of the registered sessions: it is
\* advanced while there is one, up to MaxTime.
Tick ==
    /\ now < MaxTime
    /\ Len(sessions) > 0
    /\ now' = now + 1
    /\ UNCHANGED << sessions, lastOp, created, srvVars, mcpVars, shutPc, caIt, caStart,
                    closeTried >>

\* ------------------------------------- SpecSM: the SessionManager's methods
CallCreate(id, k) ==
    LET r == SM_create(sessions, id, k, k, now)
    IN  /\ sessions' = r.sessions
        /\ lastOp' = Op("create", id, k, ~r.threw, 0, r.result)
        /\ created' = IF r.threw THEN created ELSE (id :> r.result) @@ created
        /\ UNCHANGED << now, srvVars, mcpVars, shutPc, caIt, caStart, closeTried >>

CallGet(id) ==
    /\ lastOp' = Op("get", id, 0, TRUE, 0, SM_get(sessions, id))
    /\ UNCHANGED << sessions, now, created, srvVars, mcpVars, shutPc, caIt,
                    caStart, closeTried >>

CallDelete(id) ==
    LET r == SM_delete(sessions, id)
    IN  /\ sessions' = r.sessions
        /\ lastOp' = Op("delete", id,
                        IF lastOp.op = "delete" /\ lastOp.id = id /\ lastOp.ok
                        THEN 1 ELSE 0,
                        r.result, 0, Absent)
        /\ created' = Restrict(created, liveIds \ {id})
        /\ caIt' = IterAfter(sessions, caIt, r.sessions)
        /\ UNCHANGED << now, srvVars, mcpVars, shutPc, caStart, closeTried >>

CallCleanup(maxAge) ==
    LET r == SM_cleanup(sessions, maxAge, now)
    IN  /\ sessions' = r.sessions
        /\ lastOp' = Op("cleanup", 0, maxAge, TRUE, r.result, Absent)
        /\ created' = Restrict(created, liveIds \ Aged(sessions, maxAge, now))
        /\ caIt' = IterAfter(sessions, caIt, r.sessions)
        /\ UNCHANGED << now, srvVars, mcpVars, shutPc, caStart, closeTried >>

CallCount ==
    /\ lastOp' = Op("count", 0, 0, TRUE, SM_count(sessions), Absent)
    /\ UNCHANGED << sessions, now, created, srvVars, mcpVars, shutPc, caIt,
                    caStart, closeTried >>

\* closeAll runs to its next await: either it calls close() on the next
\* entry's transport (which resolves or rejects) or the loop is over and it
\* clears the Map and returns.
SMCloseAllAdvance(it) ==
    IF CloseAllHasNext(sessions, it)
    THEN LET e == CloseAllEntry(sessions, it)
         IN  \E closed \in BOOLEAN :
                /\ lastOp' = Op("close", e.id, 0, closed, 0, Absent)
                /\ caIt' = it + 1
                /\ shutPc' = "closing"
                /\ UNCHANGED << sessions, created >>
    ELSE /\ sessions' = CloseAllClear(sessions)
         /\ created' = << >>
         /\ lastOp' = Op("closeAll", 0, 0, TRUE, 0, Absent)
         /\ shutPc' = "running"
         /\ caIt' = 0

CallCloseAll ==
    /\ shutPc = "running"
    /\ SMCloseAllAdvance(0)
    /\ UNCHANGED << now, srvVars, mcpVars, caStart, closeTried >>

SMCloseAllResume ==
    /\ shutPc = "closing"
    /\ SMCloseAllAdvance(caIt)
    /\ UNCHANGED << now, srvVars, mcpVars, caStart, closeTried >>

InitSM ==
    /\ sessions = << >>
    /\ now = 0
    /\ lastOp = [op |-> "none", id |-> 0, arg |-> 0, at |-> 0, ok |-> TRUE,
                 n |-> 0, data |-> Absent]
    /\ created = << >>
    /\ req = << >>
    /\ nreq = 0
    /\ nextUuid = 1
    /\ registered = {}
    /\ lastDone = [seq |-> 0, route |-> "none", hdr |-> 0, resp |-> Absent]
    /\ timer = "cleared"
    /\ shutPc = "running"
    /\ caIt = 0
    /\ caStart = {}
    /\ closeTried = {}
    /\ NODE_ENV = "production"
    /\ rpc = NoRpc

NextSM ==
    \/ Tick
    \/ \E id \in 1..NumIds, k \in 1..NumObjs : CallCreate(id, k)
    \/ \E id \in 1..NumIds : CallGet(id)
    \/ \E id \in 1..NumIds : CallDelete(id)
    \/ \E maxAge \in 0..MaxAgeArg : CallCleanup(maxAge)
    \/ CallCount
    \/ CallCloseAll
    \/ SMCloseAllResume

SpecSM == InitSM /\ [][NextSM]_vars

\* ------------------------------------------------- Spec: the /mcp handler
\* no mcp-session-id header
NoSid == 0

\* a session id no transport has minted
UnknownSid == MaxReq + 1

Methods == {"POST", "GET", "DELETE"}

\* the 400 response of the handler's last branch
BadRequestResponse ==
    [status |-> 400, code |-> -32000,
     message |-> "Bad Request: No valid session ID provided", sid |-> NoSid]

\* the 500 response of the handler's catch block
InternalErrorResponse ==
    [status |-> 500, code |-> -32603, message |-> "Internal server error",
     sid |-> NoSid]

\* what the transport writes: the response to initialize carries the session
\* id it has minted in the mcp-session-id header
TransportResponse(status, sid) ==
    [status |-> status, code |-> 0, message |-> "transport", sid |-> sid]

NoResponse == [status |-> 0, code |-> 0, message |-> "", sid |-> NoSid]

\* a free slot: no handler is running in it
IdleRequest ==
    [pc |-> "idle", hdr |-> NoSid, method |-> "POST", minted |-> NoSid,
     deleg |-> NoSid, resp |-> NoResponse]

\* faulty variant: the lookup falls back to the oldest session
LookupFirst(m, hdr) ==
    IF hdr # NoSid /\ Len(m) > 0 THEN m[1].data ELSE Absent

\* let session = sessionId ? sessionManager.get(sessionId) : undefined
Lookup(m, hdr) == IF hdr # NoSid THEN SM_get(m, hdr) ELSE Absent

\* faulty variant: an initialize request starts a handshake whatever its header
RouteIgnoresHeader(hdr, method, init, session) ==
    IF method = "POST" /\ init THEN "initialize"
    ELSE IF session # Absent THEN "delegate"
    ELSE "reject"

\* the branch the handler takes
Route(hdr, method, init, session) ==
    IF hdr = NoSid /\ method = "POST" /\ init THEN "initialize"
    ELSE IF session # Absent THEN "delegate"
    ELSE "reject"

\* the response of the rejecting branch to a request with header hdr
RejectResponse(hdr) == BadRequestResponse

\* a request arrives and its handler starts in the lowest free slot
Arrives(r) ==
    /\ shutPc \in {"running", "closing"}
    /\ nreq < MaxReq
    /\ req[r].pc = "idle"
    /\ \A q \in 1..(r - 1) : req[q].pc # "idle"

\* the handler of a request returns: the request is over.  threw: whether
\* the handler's try block threw, "before" or "after" the response was
\* started; nresp: the responses written for the request; closed: whether
\* the onclose of the session's transport ran while the request was served.
Done(route, hdr, resp) ==
    [seq |-> lastDone.seq + 1, route |-> route, hdr |-> hdr, resp |-> resp,
     threw |-> "no", nresp |-> 1, closed |-> FALSE]

\* faulty variant: the catch block answers 500 whatever has been sent
CatchBlockAlwaysAnswers(headersSent, resp) ==
    [resp |-> InternalErrorResponse,
     nresp |-> (IF headersSent THEN 1 ELSE 0) + 1]

\* the catch block: if (!res.headersSent) res.status(500).json(...).
\* resp is what the transport has written when headersSent.
CatchBlock(headersSent, resp) ==
    [resp |-> IF ~headersSent THEN InternalErrorResponse ELSE resp,
     nresp |-> (IF headersSent THEN 1 ELSE 0) + (IF ~headersSent THEN 1 ELSE 0)]

\* the handler's try block throws and its catch block runs: the request is over
DoneThrew(route, hdr, headersSent, resp, closed) ==
    LET c == CatchBlock(headersSent, resp)
    IN  [seq |-> lastDone.seq + 1, route |-> route, hdr |-> hdr, resp |-> c.resp,
         threw |-> IF headersSent THEN "after" ELSE "before", nresp |-> c.nresp,
         closed |-> closed]

\* the headers a client can send: none, an id it has been sent, or some other
\* string (an id is sent to the client in the step that mints it)
Headers == {NoSid, UnknownSid} \cup 1..(nextUuid - 1)

\* a handshake: the handler builds the event store, the transport and the
\* server, and awaits server.connect(transport)
RequestInitialize(r, hdr, method, init) ==
    /\ Arrives(r)
    /\ Route(hdr, method, init, Lookup(sessions, hdr)) = "initialize"
    /\ req' = [req EXCEPT ![r] = [IdleRequest EXCEPT
                    !.pc = "connect", !.hdr = hdr, !.method = method]]
    /\ nreq' = nreq + 1
    /\ UNCHANGED << mcpVars, registered, sessions, now, lastOp, created, nextUuid, lastDone, timer,
                    shutPc, caIt, caStart, closeTried >>

\* the handshake resumes and calls transport.handleRequest: the transport
\* mints the session id and answers with it ("ok"), or answers an error and
\* mints nothing ("noid"); or server.connect or handleRequest throws before
\* anything is sent ("throw"), or handleRequest throws after it has minted
\* the id and started the response ("throwAfter"): the catch block runs and
\* the handler returns without registering
HandshakeRespond(r, outcome) ==
    /\ shutPc \in {"running", "closing"}
    /\ req[r].pc = "connect"
    /\ \/ /\ outcome = "ok"
          /\ req' = [req EXCEPT ![r].pc = "responded",
                                ![r].minted = nextUuid,
                                ![r].resp = TransportResponse(200, nextUuid)]
          /\ nextUuid' = nextUuid + 1
          /\ UNCHANGED lastDone
       \/ /\ outcome = "noid"
          /\ req' = [req EXCEPT ![r].pc = "responded",
                                ![r].resp = TransportResponse(406, NoSid)]
          /\ UNCHANGED << nextUuid, lastDone >>
       \/ /\ outcome = "throw"
          /\ req' = [req EXCEPT ![r] = IdleRequest]
          /\ lastDone' = DoneThrew("initialize", req[r].hdr, FALSE, NoResponse, FALSE)
          /\ UNCHANGED nextUuid
       \/ /\ outcome = "throwAfter"
          /\ req' = [req EXCEPT ![r] = IdleRequest]
          /\ lastDone' = DoneThrew("initialize", req[r].hdr, TRUE,
                                   TransportResponse(200, nextUuid), FALSE)
          /\ nextUuid' = nextUuid + 1
    /\ UNCHANGED << mcpVars, registered, sessions, now, lastOp, created, nreq, timer, shutPc, caIt,
                    caStart, closeTried >>

\* faulty variant: every session is registered under the placeholder id its
\* server was created with
RegisterUnderPlaceholder(r) ==
    /\ shutPc \in {"running", "closing"}
    /\ req[r].pc = "responded"
    /\ IF req[r].minted # NoSid
       THEN LET c == SM_create(sessions, UnknownSid, req[r].minted,
                               req[r].minted, now)
            IN  /\ sessions' = c.sessions
                /\ created' = (UnknownSid :> c.result) @@ created
                /\ registered' = registered \cup {UnknownSid}
       ELSE UNCHANGED << sessions, created, registered >>
    /\ req' = [req EXCEPT ![r] = IdleRequest]
    /\ lastDone' = Done("initialize", req[r].hdr, req[r].resp)
    /\ UNCHANGED << mcpVars, now, lastOp, nreq, nextUuid, timer, shutPc, caIt, caStart,
                    closeTried >>

\* faulty variant: one server, built once, is registered with every session
RegisterSharedServer(r) ==
    /\ shutPc \in {"running", "closing"}
    /\ req[r].pc = "responded"
    /\ IF req[r].minted # NoSid
       THEN LET c == SM_create(sessions, req[r].minted, 0, req[r].minted, now)
            IN  /\ sessions' = c.sessions
                /\ created' = (req[r].minted :> c.result) @@ created
                /\ registered' = registered \cup {req[r].minted}
       ELSE UNCHANGED << sessions, created, registered >>
    /\ req' = [req EXCEPT ![r] = IdleRequest]
    /\ lastDone' = Done("initialize", req[r].hdr, req[r].resp)
    /\ UNCHANGED << mcpVars, now, lastOp, nreq, nextUuid, timer, shutPc, caIt, caStart,
                    closeTried >>

\* handleRequest has returned: if (actualSessionId) sessionManager.create(...).
\* The server and the transport of the handshake that minted id k are object k.
Register(r) ==
    /\ shutPc \in {"running", "closing"}
    /\ req[r].pc = "responded"
    /\ IF req[r].minted # NoSid
       THEN LET c == SM_create(sessions, req[r].minted, req[r].minted,
                               req[r].minted, now)
            IN  /\ sessions' = c.sessions
                /\ created' = (req[r].minted :> c.result) @@ created
                /\ registered' = registered \cup {req[r].minted}
       ELSE UNCHANGED << sessions, created, registered >>
    /\ req' = [req EXCEPT ![r] = IdleRequest]
    /\ lastDone' = Done("initialize", req[r].hdr, req[r].resp)
    /\ UNCHANGED << mcpVars, now, lastOp, nreq, nextUuid, timer, shutPc, caIt, caStart,
                    closeTried >>

\* faulty variant: a request renews the session it is delegated to
RequestDelegateRenews(r, hdr, method, init) ==
    /\ Arrives(r)
    /\ Route(hdr, method, init, Lookup(sessions, hdr)) = "delegate"
    /\ req' = [req EXCEPT ![r] = [IdleRequest EXCEPT
                    !.pc = "delegated", !.hdr = hdr, !.method = method,
                    !.deleg = Lookup(sessions, hdr).transport]]
    /\ nreq' = nreq + 1
    /\ sessions' = MapSet(sessions, hdr,
                          [Lookup(sessions, hdr) EXCEPT !.createdAt = now])
    /\ UNCHANGED << mcpVars, registered, now, lastOp, created, nextUuid, lastDone, timer,
                    shutPc, caIt, caStart, closeTried >>

\* a request whose session is found: session.transport.handleRequest(...)
RequestDelegate(r, hdr, method, init) ==
    /\ Arrives(r)
    /\ Route(hdr, method, init, Lookup(sessions, hdr)) = "delegate"
    /\ req' = [req EXCEPT ![r] = [IdleRequest EXCEPT
                    !.pc = "delegated", !.hdr = hdr, !.method = method,
                    !.deleg = Lookup(sessions, hdr).transport]]
    /\ nreq' = nreq + 1
    /\ UNCHANGED << mcpVars, registered, sessions, now, lastOp, created, nextUuid, lastDone, timer,
                    shutPc, caIt, caStart, closeTried >>

\* faulty variant: onclose leaves the session in the table
OnCloseKeeps(m, t) == m

\* transport.onclose of transport t: sid = transport.sessionId, the id the
\* transport has minted (the transport that minted id k is object k)
OnClose(m, t) ==
    LET sid == t
    IN  IF sid # NoSid THEN SM_delete(m, sid).sessions ELSE m

\* the transport serves the delegated request; a DELETE closes the transport,
\* which runs its onclose, and is answered after that.  handleRequest
\* returns ("ok"), or throws before it has done anything ("throwBefore"),
\* after the close of a DELETE and before the response ("throwClosed"), or
\* after it has started the response ("throwAfter").
Serve(r, outcome) ==
    /\ shutPc \in {"running", "closing"}
    /\ req[r].pc = "delegated"
    /\ outcome = "throwClosed" => req[r].method = "DELETE"
    /\ req' = [req EXCEPT ![r] = IdleRequest]
    /\ lastDone' =
          LET closed == req[r].method = "DELETE" /\ outcome # "throwBefore"
          IN  IF outcome = "ok"
              THEN [Done("delegate", req[r].hdr, TransportResponse(200, NoSid))
                       EXCEPT !.closed = closed]
              ELSE DoneThrew("delegate", req[r].hdr, outcome = "throwAfter",
                             TransportResponse(200, NoSid), closed)
    /\ IF req[r].method = "DELETE" /\ outcome # "throwBefore"
       THEN LET m2 == OnClose(sessions, req[r].deleg)
            IN  /\ sessions' = m2
                /\ created' = Restrict(created, liveIds \ {req[r].deleg})
                /\ caIt' = IterAfter(sessions, caIt, m2)
                /\ closeTried' =
                      IF shutPc = "closing"
                      THEN closeTried \cup
                           {[id |-> req[r].deleg, ok |-> TRUE, by |-> "client"]}
                      ELSE closeTried
       ELSE UNCHANGED << sessions, created, caIt, closeTried >>
    /\ UNCHANGED << mcpVars, registered, now, lastOp, nreq, nextUuid, timer, shutPc, caStart >>

\* faulty variant: the rejecting branch registers the id it was given
RequestRejectRegisters(r, hdr, method, init) ==
    /\ Arrives(r)
    /\ Route(hdr, method, init, Lookup(sessions, hdr)) = "reject"
    /\ nreq' = nreq + 1
    /\ lastDone' = Done("reject", hdr, RejectResponse(hdr))
    /\ sessions' = IF hdr # NoSid
                   THEN SM_create(sessions, hdr, hdr, hdr, now).sessions
                   ELSE sessions
    /\ UNCHANGED << mcpVars, registered, now, lastOp, created, req, nextUuid, timer,
                    shutPc, caIt, caStart, closeTried >>

\* neither a handshake nor a request of a live session: 400
RequestReject(r, hdr, method, init) ==
    /\ Arrives(r)
    /\ Route(hdr, method, init, Lookup(sessions, hdr)) = "reject"
    /\ nreq' = nreq + 1
    /\ lastDone' = Done("reject", hdr, RejectResponse(hdr))
    /\ UNCHANGED << mcpVars, registered, sessions, now, lastOp, created, req, nextUuid, timer,
                    shutPc, caIt, caStart, closeTried >>

\* ------------------------------------------------- Spec: the cleanup timer
\* faulty variant: the callback passes the age in another unit, so that no
\* session is ever old enough
SweepWrongUnit ==
    /\ timer = "active"
    /\ shutPc # "exited"
    /\ sessions' = SM_cleanup(sessions, SESSION_MAX_AGE * 1000, now).sessions
    /\ created' = Restrict(created, liveIds \ Aged(sessions, SESSION_MAX_AGE * 1000, now))
    /\ caIt' = IterAfter(sessions, caIt, sessions')
    /\ UNCHANGED << mcpVars, registered, now, lastOp, req, nreq, nextUuid, lastDone, timer, shutPc,
                    caStart, closeTried >>

\* the interval's callback: sessionManager.cleanup(SESSION_MAX_AGE)
Sweep ==
    /\ timer = "active"
    /\ shutPc # "exited"
    /\ sessions' = SM_cleanup(sessions, SESSION_MAX_AGE, now).sessions
    /\ created' = Restrict(created, liveIds \ Aged(sessions, SESSION_MAX_AGE, now))
    /\ caIt' = IterAfter(sessions, caIt, sessions')
    /\ UNCHANGED << mcpVars, registered, now, lastOp, req, nreq, nextUuid, lastDone, timer, shutPc,
                    caStart, closeTried >>

\* faulty variant: no try/catch around close(): the first rejected close() ends closeAll
CloseAllAdvanceAborts(it, tried) ==
    IF CloseAllHasNext(sessions, it)
    THEN LET e == CloseAllEntry(sessions, it)
         IN  \E outcome \in {"ok", "throwBefore", "throwAfter"} :
                LET m2 == IF outcome = "throwBefore" THEN sessions
                          ELSE OnClose(sessions, e.data.transport)
                IN  /\ sessions' = m2
                    /\ created' = IF outcome = "throwBefore" THEN created
                                   ELSE Restrict(created, liveIds \ {e.id})
                    /\ closeTried' = tried \cup
                          {[id |-> e.id, ok |-> outcome = "ok", by |-> "closeAll"]}
                    /\ caIt' = IterAfter(sessions, it + 1, m2)
                    /\ shutPc' = IF outcome = "ok" THEN "closing" ELSE "closed"
    ELSE /\ sessions' = CloseAllClear(sessions)
         /\ created' = << >>
         /\ shutPc' = "closed"
         /\ caIt' = it
         /\ closeTried' = tried

\* ---------------------------------------------------- Spec: the shutdown
\* closeAll runs to its next await.  close() on a transport resolves after
\* running onclose ("ok"), or rejects before ("throwBefore") or after
\* ("throwAfter") running it.
CloseAllAdvance(it, tried) ==
    IF CloseAllHasNext(sessions, it)
    THEN LET e == CloseAllEntry(sessions, it)
         IN  \E outcome \in {"ok", "throwBefore", "throwAfter"} :
                LET m2 == IF outcome = "throwBefore" THEN sessions
                          ELSE OnClose(sessions, e.data.transport)
                IN  /\ sessions' = m2
                    /\ created' = IF outcome = "throwBefore" THEN created
                                   ELSE Restrict(created, liveIds \ {e.id})
                    /\ closeTried' = tried \cup
                          {[id |-> e.id, ok |-> outcome = "ok", by |-> "closeAll"]}
                    /\ caIt' = IterAfter(sessions, it + 1, m2)
                    /\ shutPc' = "closing"
    ELSE /\ sessions' = CloseAllClear(sessions)
         /\ created' = << >>
         /\ shutPc' = "closed"
         /\ caIt' = it
         /\ closeTried' = tried

\* faulty variant: shutdown leaves the cleanup timer running
ShutdownKeepsTimer ==
    /\ shutPc = "running"
    /\ timer' = timer
    /\ caStart' = MapKeys(sessions)
    /\ CloseAllAdvance(0, {})
    /\ UNCHANGED << mcpVars, registered, now, lastOp, req, nreq, nextUuid, lastDone >>

\* SIGINT / SIGTERM: shutdown() clears the timer, closes the listener and
\* calls closeAll
Shutdown ==
    /\ shutPc = "running"
    /\ timer' = "cleared"
    /\ caStart' = MapKeys(sessions)
    /\ CloseAllAdvance(0, {})
    /\ UNCHANGED << mcpVars, registered, now, lastOp, req, nreq, nextUuid, lastDone >>

CloseAllResume ==
    /\ shutPc = "closing"
    /\ CloseAllAdvance(caIt, closeTried)
    /\ UNCHANGED << mcpVars, registered, now, lastOp, req, nreq, nextUuid, lastDone, timer, caStart >>

\* process.exit(0)
Exit ==
    /\ shutPc = "closed"
    /\ shutPc' = "exited"
    /\ UNCHANGED << mcpVars, registered, sessions, now, lastOp, created, req, nreq, nextUuid,
                    lastDone, timer, caIt, caStart, closeTried >>

Init ==
    /\ sessions = << >>
    /\ now = 0
    /\ lastOp = [op |-> "none", id |-> 0, arg |-> 0, at |-> 0, ok |-> TRUE,
                 n |-> 0, data |-> Absent]
    /\ created = << >>
    /\ req = [r \in 1..MaxReq |-> IdleRequest]
    /\ nreq = 0
    /\ nextUuid = 1
    /\ registered = {}
    /\ lastDone = [seq |-> 0, route |-> "none", hdr |-> NoSid, resp |-> NoResponse,
                   threw |-> "no", nresp |-> 0, closed |-> FALSE]
    /\ timer = "active"
    /\ shutPc = "running"
    /\ caIt = 0
    /\ caStart = {}
    /\ closeTried = {}
    /\ NODE_ENV = "production"
    /\ rpc = NoRpc

Next ==
    \/ Tick
    \/ \E r \in 1..MaxReq, hdr \in Headers, method \in Methods, init \in BOOLEAN :
          RequestInitialize(r, hdr, method, init)
    \/ \E r \in 1..MaxReq, outcome \in {"ok", "noid", "throw", "throwAfter"} :
          HandshakeRespond(r, outcome)
    \/ \E r \in 1..MaxReq : Register(r)
    \/ \E r \in 1..MaxReq, hdr \in Headers, method \in Methods, init \in BOOLEAN :
          RequestDelegate(r, hdr, method, init)
    \/ \E r \in 1..MaxReq,
            outcome \in {"ok", "throwBefore", "throwClosed", "throwAfter"} :
          Serve(r, outcome)
    \/ \E r \in 1..MaxReq, hdr \in Headers, method \in Methods, init \in BOOLEAN :
          RequestReject(r, hdr, method, init)
    \/ Sweep
    \/ Shutdown
    \/ CloseAllResume
    \/ Exit

Spec == Init /\ [][Next]_vars

\* setInterval keeps calling the callback every 60 s until clearInterval:
\* a sweep that has something to remove is not postponed for ever
SpecFair == Spec /\ WF_vars(Sweep)

\* ------------------------------------- SpecMcp: one MCP server instance
\* The handlers of one createMcpServer(sessionId) called with arbitrary
\* requests.  The /mcp handler creates every server with the same argument.
McpServerSessionId == "initializing"

\* the ids the transport of the instance may have minted
SessionIds == {"uuid-1", "uuid-2"}

ToolNames == {"echo", "Echo", "echo2", ""}

MessageValues ==
    {JsValue("undefined", ""), JsValue("string", ""), JsValue("string", "a"),
     JsValue("string", "hi there"), JsValue("number", ""), JsValue("boolean", "")}

Arguments ==
    {ArgsUndefined} \cup {ArgsObject(m, x) : m \in MessageValues, x \in BOOLEAN}

Uris ==
    {"ui://echo-marquee", "ui://echo-marquee/", "ui://other", "ui://",
     "widget://echo-marquee", "echo-marquee", "xui://echo-marquee",
     "ui://ui://echo-marquee", ""}

LoaderEnvs ==
    {LoaderEnv(v, a) : v \in {"ok", "error", "down"}, a \in {"none", "nofile", "file"}}

\* the variables of the other two specifications
sessVars == << sessions, lastOp, created, srvVars, shutPc, caIt, caStart, closeTried >>

\* the clock advances, up to MaxTime
McpTick ==
    /\ now < MaxTime
    /\ now' = now + 1
    /\ UNCHANGED << sessVars, mcpVars >>

ListTools ==
    /\ rpc' = Rpc(rpc.sid, "tools/list", "", ArgsUndefined, FALSE, "", NoRpc.env,
                  ListToolsHandler(McpServerSessionId))
    /\ UNCHANGED << sessVars, now, NODE_ENV >>

ListResources ==
    /\ rpc' = Rpc(rpc.sid, "resources/list", "", ArgsUndefined, FALSE, "", NoRpc.env,
                  ListResourcesHandler(McpServerSessionId))
    /\ UNCHANGED << sessVars, now, NODE_ENV >>

ListResourceTemplates ==
    /\ rpc' = Rpc(rpc.sid, "resources/templates/list", "", ArgsUndefined, FALSE, "", NoRpc.env,
                  ListResourceTemplatesHandler(McpServerSessionId))
    /\ UNCHANGED << sessVars, now, NODE_ENV >>

CallTool(name, args, fault) ==
    /\ rpc' = Rpc(rpc.sid, "tools/call", name, args, fault, "", NoRpc.env,
                  CallToolHandler(McpServerSessionId, name, args, now, fault))
    /\ UNCHANGED << sessVars, now, NODE_ENV >>

ReadResource(uri, env) ==
    /\ rpc' = Rpc(rpc.sid, "resources/read", "", ArgsUndefined, FALSE, uri, env,
                  ReadResourceHandler(McpServerSessionId, uri, NODE_ENV, env))
    /\ UNCHANGED << sessVars, now, NODE_ENV >>

InitMcp ==
    /\ sessions = << >>
    /\ now = 0
    /\ lastOp = [op |-> "none", id |-> 0, arg |-> 0, at |-> 0, ok |-> TRUE,
                 n |-> 0, data |-> Absent]
    /\ created = << >>
    /\ req = << >>
    /\ nreq = 0
    /\ nextUuid = 1
    /\ registered = {}
    /\ lastDone = [seq |-> 0, route |-> "none", hdr |-> 0, resp |-> Absent]
    /\ timer = "cleared"
    /\ shutPc = "running"
    /\ caIt = 0
    /\ caStart = {}
    /\ closeTried = {}
    /\ NODE_ENV \in {"development", "production", "test"}
    /\ rpc \in {[NoRpc EXCEPT !.sid = sid] : sid \in SessionIds}

NextMcp ==
    \/ McpTick
    \/ ListTools
    \/ ListResources
    \/ ListResourceTemplates
    \/ \E name \in ToolNames, args \in Arguments, fault \in BOOLEAN :
          CallTool(name, args, fault)
    \/ \E uri \in Uris, env \in LoaderEnvs : ReadResource(uri, env)

SpecMcp == InitMcp /\ [][NextMcp]_vars

\* =============================================================== claims

\* the handler of a request that takes the branch route returns in this step
Completes(route) == lastDone'.seq # lastDone.seq /\ lastDone'.route = route

\* a request arrives in this step and is delegated, in slot r
Delegated(r) == req[r].pc = "idle" /\ req'[r].pc = "delegated"

\* the SessionManager method op is called in this step
Called(op) == lastOp' # lastOp /\ lastOp'.op = op

\* C1: a handshake registers the session before any response carrying the
\* minted id is sent, so a follow-up request carrying an id the client has
\* been sent is never rejected for want of a session that was never registered.
C1_RegisteredBeforeResponse ==
    /\ [](\A id \in 1..(nextUuid - 1) : id \in registered)
    /\ [][(Completes("reject") /\ lastDone'.hdr \in 1..(nextUuid - 1))
             => lastDone'.hdr \in registered]_vars

\* C2: a request whose mcp-session-id names no live session gets a response
\* that differs from the one given to a non-handshake request with no id.
C2_SessionNotFoundDistinct ==
    (lastDone.route = "reject" /\ lastDone.hdr # NoSid)
        => lastDone.resp # RejectResponse(NoSid)

\* C3: a rejected request creates no session and leaves the session table,
\* its ids and count() as they were.
C3_RejectLeavesTable ==
    [][Completes("reject")
          => /\ sessions' = sessions
             /\ MapKeys(sessions') = MapKeys(sessions)
             /\ SM_count(sessions') = SM_count(sessions)]_vars

C3_Witness ==
    /\ lastDone.route = "reject"
    /\ lastDone.hdr = UnknownSid
    /\ lastDone.resp.status = 400
    /\ SM_count(sessions) > 0

\* C4: a request whose id matches a live session is delegated to the
\* transport registered under that id, not to a transport a handshake is still
\* building, and the step mints no id and registers nothing.
C4_DelegatesToOwnTransport ==
    [][\A r \in 1..MaxReq :
          Delegated(r)
              => /\ req'[r].hdr \in liveIds
                 /\ req'[r].deleg = created[req'[r].hdr].transport
                 /\ req'[r].deleg \in registered
                 /\ sessions' = sessions
                 /\ nextUuid' = nextUuid]_vars

C4_Witness ==
    \E r \in 1..MaxReq :
        /\ req[r].pc = "delegated"
        /\ SM_count(sessions) >= 2
        /\ req[r].hdr = sessions[2].id
        /\ req[r].deleg = sessions[2].data.transport

\* C5: create on an id that is already registered fails and leaves the
\* registered record in place.
C5_CreateFailsOnDuplicate ==
    [][(Called("create") /\ MapHas(sessions, lastOp'.id))
          => (~lastOp'.ok /\ sessions' = sessions)]_vars

\* C6: get(id) returns the record the latest create(id) returned for as long
\* as id has not been deleted, evicted or cleared, whatever happened to the
\* other ids, and absent otherwise; get changes no state.
C6_GetReturnsCreated ==
    /\ [](lastOp.op = "get" =>
            lastOp.data = IF lastOp.id \in liveIds THEN created[lastOp.id] ELSE Absent)
    /\ [][Called("get") =>
            UNCHANGED << sessions, now, created, shutPc, caIt, caStart, closeTried >>]_vars

C6_Witness ==
    /\ lastOp.op = "get"
    /\ lastOp.data # Absent
    /\ SM_count(sessions) >= 2
    /\ lastOp.data.createdAt < now

\* C7: delete(id) returns true and removes exactly id when id is registered,
\* returns false and changes nothing when it is not; a second delete of the
\* same id returns false.
C7_DeleteIdempotent ==
    [][Called("delete") =>
          LET id == lastOp'.id
              was == MapHas(sessions, id)
          IN  /\ lastOp'.ok = was
              /\ sessions' = SelectSeq(sessions, LAMBDA e : e.id # id)
              /\ ~was => sessions' = sessions
              /\ lastOp'.arg = 1 => ~lastOp'.ok]_vars

C7_Witness ==
    /\ lastOp.op = "delete"
    /\ lastOp.arg = 1
    /\ ~lastOp.ok
    /\ SM_count(sessions) > 0

\* C8: cleanup(maxAge) at time now removes exactly the sessions with
\* now - createdAt > maxAge, keeps the others (age = maxAge included) as they
\* were, and returns the number it removed.
C8_CleanupExact ==
    [][Called("cleanup") =>
          LET maxAge == lastOp'.arg
              stale(e) == now - e.data.createdAt > maxAge
          IN  /\ sessions' = SelectSeq(sessions, LAMBDA e : ~stale(e))
              /\ lastOp'.n = Cardinality({i \in 1..Len(sessions) : stale(sessions[i])})]_vars

C8_Witness ==
    /\ lastOp.op = "cleanup"
    /\ lastOp.n >= 1
    /\ \E i \in 1..Len(sessions) :
          lastOp.at - sessions[i].data.createdAt = lastOp.arg

\* C9: whatever the interleaving of the sweep with the requests, the table
\* holds exactly the sessions registered and not since closed, evicted (age
\* above SESSION_MAX_AGE at a sweep) or cleared, each with its own record.
C9_NoLostUpdate ==
    /\ MapKeys(sessions) = liveIds
    /\ \A id \in liveIds : SM_get(sessions, id) = created[id]

\* Two requests have arrived, both handshakes, so no client has closed
\* anything: the first session was evicted by a sweep, which kept the second,
\* registered before it (the clock has moved since).
C9_Witness ==
    /\ shutPc = "running"
    /\ nreq = 2
    /\ registered = {1, 2}
    /\ MapKeys(sessions) = {2}
    /\ SM_get(sessions, 2).createdAt < now

\* C10: when closeAll has completed the table is empty, and close() has been
\* called on the transport of every session that was registered when it
\* started (by closeAll, unless a client's DELETE closed it first), failed
\* closes included.
C10_CloseAllDrains ==
    shutPc \in {"closed", "exited"} =>
        /\ SM_count(sessions) = 0
        /\ \A id \in caStart : \E x \in closeTried : x.id = id

C10_Witness ==
    /\ shutPc = "closed"
    /\ \E x, y \in closeTried :
          /\ x.by = "closeAll" /\ y.by = "closeAll"
          /\ ~x.ok /\ y.ok /\ x.id < y.id

\* the handshake in slot r registers its session in this step
Registers(r) ==
    req[r].pc = "responded" /\ req[r].minted # NoSid /\ req'[r].pc = "idle"

\* C11: the table holds at most one session per id; a handshake that
\* registers does so under an id that was never registered before, next to
\* the sessions that are there; and an id that was registered and is no
\* longer in the table (deleted, evicted, cleared) never comes back.
C11_IdentifierNeverReused ==
    /\ [](\A i, j \in 1..Len(sessions) : sessions[i].id = sessions[j].id => i = j)
    /\ [][\A r \in 1..MaxReq :
             Registers(r) =>
                 \E id \in MapKeys(sessions') \ registered :
                     /\ registered' = registered \cup {id}
                     /\ MapKeys(sessions') = MapKeys(sessions) \cup {id}
                     /\ SM_count(sessions') = SM_count(sessions) + 1]_vars
    /\ [][\A id \in registered \ MapKeys(sessions) : ~MapHas(sessions', id)]_vars

\* the third handshake has registered next to the second, after the first
\* session was removed
C11_Witness ==
    /\ registered = {1, 2, 3}
    /\ MapKeys(sessions) = {2, 3}
    /\ \A r \in 1..MaxReq : req[r].pc = "idle"

\* C12: no two registered sessions hold the same server or the same
\* transport (the event store is reachable through its transport only).
C12_ExclusiveOwnership ==
    \A i, j \in 1..Len(sessions) :
        i # j => /\ sessions[i].data.server # sessions[j].data.server
                 /\ sessions[i].data.transport # sessions[j].data.transport

C12_Witness ==
    /\ SM_count(sessions) = 3
    /\ shutPc = "running"

\* the arguments EchoToolInputSchema accepts: an object whose message is a
\* string of at least one character
Conformant(args) ==
    args.defined /\ args.message.type = "string" /\ Len(args.message.str) >= 1

\* the server has handled a call of tool name
ToolCalled(name) == rpc.method = "tools/call" /\ rpc.name = name

\* C13: a call of the echo tool with conformant arguments (and no failure
\* while it runs) returns a text part, structured data whose echoedMessage
\* is the message given, and _meta naming the widget the tool declares; no
\* call-tool result is without that _meta.
C13_EchoResponseComplete ==
    /\ (ToolCalled(echoTool.name) /\ Conformant(rpc.args) /\ ~rpc.fault) =>
            /\ ~rpc.out.threw
            /\ Len(rpc.out.result.content) = 1
            /\ rpc.out.result.content[1].type = "text"
            /\ rpc.out.result.content[1].text =
                   "Echoing: \"" \o rpc.args.message.str \o "\""
            /\ rpc.out.result.structuredContent.echoedMessage = rpc.args.message.str
    /\ (rpc.method = "tools/call" /\ ~rpc.out.threw) =>
            /\ rpc.out.result # NoResult
            /\ rpc.out.result.meta.outputTemplate.type = "resource"
            /\ rpc.out.result.meta.outputTemplate.resource.uri =
                   echoTool.meta.openai_outputTemplate

C13_Witness ==
    /\ ToolCalled("echo")
    /\ rpc.args = ArgsObject(JsValue("string", "hi there"), TRUE)
    /\ ~rpc.out.threw
    /\ rpc.out.result.structuredContent.timestamp = ToISOString(MaxTime)

\* C14: a call of a tool that is not registered fails with the unknown-tool
\* error, runs neither the validation nor the tool, and logs no record of
\* an invocation.
C14_UnknownToolNoExecution ==
    (rpc.method = "tools/call" /\ rpc.name # echoTool.name) =>
        /\ rpc.out.threw
        /\ rpc.out.error = Error("Error", "Unknown tool: " \o rpc.name)
        /\ ~rpc.out.parsed
        /\ ~rpc.out.computed
        /\ \A i \in 1..Len(rpc.out.log) : rpc.out.log[i].msg # "Tool invoked"

\* C15: a call of the echo tool whose arguments are absent, or whose
\* message is missing, not a string or empty, fails with the schema's
\* validation error before the output is built, and returns no result.
C15_InvalidInputRejected ==
    (ToolCalled(echoTool.name) /\ ~Conformant(rpc.args)) =>
        /\ rpc.out.threw
        /\ rpc.out.error.class = "ZodError"
        /\ rpc.out.parsed
        /\ ~rpc.out.computed
        /\ rpc.out.result = NoResult

C15_Witness ==
    /\ ToolCalled("echo")
    /\ rpc.args = ArgsObject(JsValue("string", ""), FALSE)
    /\ rpc.out.error = Error("ZodError", "Message cannot be empty")

\* the errors the validation of some arguments raises
ValidationErrors ==
    {EchoToolInputSchema_parse(OrEmptyObject(args)).error :
        args \in {a \in Arguments : ~Conformant(a)}}

C17_SkybridgeMimeType ==
    /\ (rpc.method = "resources/read" /\ ~rpc.out.threw) =>
            /\ Len(rpc.out.result.contents) >= 1
            /\ \A i \in 1..Len(rpc.out.result.contents) :
                   rpc.out.result.contents[i].mimeType = "text/html+skybridge"
    /\ rpc.method = "resources/list" =>
            /\ Len(rpc.out.result.resources) >= 1
            /\ \A i \in 1..Len(rpc.out.result.resources) :
                   rpc.out.result.resources[i].mimeType = "text/html+skybridge"

\* a read served from the built assets after the dev server failed
C17_Witness ==
    /\ rpc.method = "resources/read"
    /\ NODE_ENV = "development"
    /\ rpc.env = LoaderEnv("down", "file")
    /\ ~rpc.out.threw
    /\ rpc.out.result.contents[1].text = "<assets>echo-marquee"

\* the URIs list-resources announces
RegisteredUris == {ECHO_WIDGET.uri}

\* C18: a read of a URI that is not registered fails with the
\* unknown-resource error and does not call the loader; a read of a
\* registered URI calls the loader once, and when the loader throws the read
\* throws the loader's error and returns no content.
C18_ReadResourceErrors ==
    rpc.method = "resources/read" =>
        IF rpc.uri \notin RegisteredUris
        THEN /\ rpc.out.threw
             /\ rpc.out.error = Error("Error", "Unknown resource: " \o rpc.uri)
             /\ rpc.out.loads = 0
             /\ rpc.out.result = NoResult
        ELSE LET html == readWidgetHtml(ECHO_WIDGET.id, NODE_ENV, rpc.env)
             IN  /\ rpc.out.loads = 1
                 /\ rpc.out.threw = html.threw
                 /\ html.threw => /\ rpc.out.error = html.error
                                   /\ rpc.out.result = NoResult

\* the dev server is down and the assets are not built
C18_Witness ==
    /\ rpc.method = "resources/read"
    /\ rpc.uri = "ui://echo-marquee"
    /\ NODE_ENV = "development"
    /\ rpc.env = LoaderEnv("down", "none")
    /\ rpc.out.threw
    /\ rpc.out.error = Error("Error", "Widget assets not found")

\* a sweep removes sessions in this step (the steps of the requests change
\* req, those of closeAll change closeTried or shutPc)
SweepRemoves ==
    sessions' # sessions /\ UNCHANGED << req, closeTried, shutPc, registered >>

\* C21: the step that starts the shutdown clears the timer and starts
\* closeAll; from then on the timer is cleared and no sweep removes anything;
\* the process exits only from the state closeAll leaves when it has
\* completed, the table being empty.
C21_ShutdownOrder ==
    /\ [][(shutPc = "running" /\ shutPc' # "running")
             => (timer' = "cleared" /\ shutPc' \in {"closing", "closed"})]_vars
    /\ [](shutPc # "running" => timer = "cleared")
    /\ [][SweepRemoves => shutPc = "running"]_vars
    /\ [][(shutPc # "closed" /\ shutPc' = "closed") => SM_count(sessions') = 0]_vars
    /\ [][(shutPc # "exited" /\ shutPc' = "exited")
             => (shutPc = "closed" /\ SM_count(sessions) = 0)]_vars

C21_Witness ==
    /\ shutPc = "exited"
    /\ timer = "cleared"
    /\ Cardinality(caStart) >= 2
    /\ now = MaxTime

\* C22: every request that is over has received exactly one response; when
\* its handler threw before a response was started that response is the 500
\* with code -32603, and when it threw after, the catch block has added
\* nothing to what the transport sent.
C22_ErrorResponseOnThrow ==
    /\ lastDone.seq > 0 => lastDone.nresp = 1
    /\ lastDone.threw = "before" =>
            /\ lastDone.resp.status = 500
            /\ lastDone.resp.code = -32603
    /\ lastDone.threw = "after" => lastDone.resp.status # 500

\* a handshake threw after its transport had answered with the minted id
C22_Witness ==
    /\ lastDone.route = "initialize"
    /\ lastDone.threw = "after"
    /\ lastDone.resp.sid = 1
    /\ registered = {}

\* the session registered under id is older than SESSION_MAX_AGE
Expired(id) ==
    MapHas(sessions, id) /\ now - SM_get(sessions, id).createdAt > SESSION_MAX_AGE

\* C23: while the shutdown has not started, a registered session older than
\* SESSION_MAX_AGE is eventually removed, and a sweep that removes anything
\* leaves no such session behind.
C23_ExpiredEventuallySwept ==
    /\ \A id \in 1..MaxReq :
           (shutPc = "running" /\ Expired(id))
               ~> (~MapHas(sessions, id) \/ shutPc # "running")
    /\ [][SweepRemoves =>
             \A i \in 1..Len(sessions') :
                 now - sessions'[i].data.createdAt <= SESSION_MAX_AGE]_vars

\* one request has arrived, a handshake: its session is gone and only a
\* sweep can have removed it
C23_Witness ==
    /\ shutPc = "running"
    /\ timer = "active"
    /\ nreq = 1
    /\ registered = {1}
    /\ SM_count(sessions) = 0

FailureRecords ==
    {rpc.out.log[i] : i \in {j \in 1..Len(rpc.out.log) :
        rpc.out.log[j].msg \in {"Tool execution failed", "Failed to load widget"}}}

\* C25: the records a server writes for a failed tool call or resource read
\* carry the id under which its session is registered.
C25_FailureLogsCarrySessionId ==
    \A rec \in FailureRecords : rec.sessionId = rpc.sid

\* the text of the read result
ReadText == rpc.out.result.contents[1].text

\* C26: outside development the loader does not fetch and reads the built
\* file; in development it fetches once, returns what the dev server sent
\* when the fetch succeeded, reads the built file when the fetch failed or was
\* answered not-ok, and fails only when the built file is missing too.
C26_WidgetHtmlSource ==
    (rpc.method = "resources/read" /\ rpc.uri = ECHO_WIDGET.uri) =>
        LET fetches == {i \in 1..Len(rpc.out.log) :
                           rpc.out.log[i].msg = "Fetching widget HTML from Vite dev server"}
            built == rpc.env.assets = "file"
        IN  IF NODE_ENV # "development"
            THEN /\ fetches = {}
                 /\ rpc.out.threw = ~built
                 /\ built => ReadText = "<assets>echo-marquee"
            ELSE /\ Cardinality(fetches) = 1
                 /\ rpc.out.threw = (rpc.env.vite # "ok" /\ ~built)
                 /\ rpc.env.vite = "ok" => ReadText = "<vite>echo-marquee"
                 /\ (rpc.env.vite # "ok" /\ built) => ReadText = "<assets>echo-marquee"

\* the dev server answers not-ok and the built file is served
C26_Witness ==
    /\ rpc.method = "resources/read"
    /\ NODE_ENV = "development"
    /\ rpc.env = LoaderEnv("error", "file")
    /\ ~rpc.out.threw
    /\ ReadText = "<assets>echo-marquee"

\* the ids closeAll has called close() for
ClosedByCloseAll(tried) == {x.id : x \in {y \in tried : y.by = "closeAll"}}

\* the ids a client's DELETE has closed while closeAll was running
ClosedByClient(tried) == {x.id : x \in {y \in tried : y.by = "client"}}

\* closeAll calls close() on the next entry in this step
CloseAllCloses ==
    /\ shutPc' = "closing"
    /\ UNCHANGED << req, nreq, now, lastDone, registered >>
    /\ << sessions, caIt, shutPc >> # << sessions', caIt', shutPc' >>

\* C27 as stated: when closeAll has completed it has called close() for every
\* session that was registered when it started.
C27_CloseAllClosesEachOnce ==
    shutPc \in {"closed", "exited"} => caStart \subseteq ClosedByCloseAll(closeTried)

\* C27 amended: each close() of closeAll is for a session it has not closed
\* before, and when it has completed it has called close() for every session
\* that was registered when it started except those a client's DELETE closed
\* and removed while closeAll was waiting.
C27_CloseAllClosesRemainingOnce ==
    /\ [][CloseAllCloses =>
             \E x \in closeTried' \ closeTried :
                 /\ x.by = "closeAll"
                 /\ x.id \notin ClosedByCloseAll(closeTried)
                 /\ closeTried' = closeTried \cup {x}]_vars
    /\ [](shutPc \in {"closed", "exited"} =>
             caStart \subseteq (ClosedByCloseAll(closeTried) \cup ClosedByClient(closeTried)))

\* three sessions, each closed by closeAll, each close running onclose
C27_Witness ==
    /\ shutPc = "closed"
    /\ Cardinality(caStart) = 3
    /\ closeTried = {[id |-> id, ok |-> TRUE, by |-> "closeAll"] : id \in caStart}

\* JSON Schema: args is an object that has the required properties, each
\* property of the type the schema gives it
AdvertisedSchemaAccepts(schema, args) ==
    /\ schema.type = "object"
    /\ args.defined
    /\ "message" \in schema.required => args.message.type # "undefined"
    /\ args.message.type # "undefined" =>
           args.message.type = schema.properties.message.type

\* C28: the echo tool's validation passes exactly for the arguments that
\* conform to the inputSchema list-tools advertises.
C28_AdvertisedSchemaIsValidated ==
    (ToolCalled(echoTool.name) /\ ~rpc.fault) =>
        (AdvertisedSchemaAccepts(echoTool.inputSchema, rpc.args) <=> ~rpc.out.threw)

\* a session enters the table in this step
AddsSession == MapKeys(sessions') # MapKeys(sessions) /\ MapKeys(sessions) \subseteq MapKeys(sessions')

\* C29: a step that adds a session is the registration of a handshake that
\* was started by a POST without mcp-session-id and whose transport minted an
\* id, and adds that id only; a handshake starts for such a request only; a
\* handshake without id, a delegated and a rejected request add nothing.
C29_OnlyHandshakeAdds ==
    /\ [][AddsSession =>
             \E r \in 1..MaxReq :
                 /\ Registers(r)
                 /\ req[r].hdr = NoSid
                 /\ req[r].method = "POST"
                 /\ MapKeys(sessions') = MapKeys(sessions) \cup {req[r].minted}
                 /\ SM_count(sessions') = SM_count(sessions) + 1]_vars
    /\ [][\A r \in 1..MaxReq :
             (req[r].pc = "idle" /\ req'[r].pc = "connect")
                 => (req'[r].hdr = NoSid /\ req'[r].method = "POST")]_vars
    /\ [][\A r \in 1..MaxReq :
             (req[r].pc = "responded" /\ req[r].minted = NoSid /\ req'[r].pc = "idle")
                 => sessions' = sessions]_vars
    /\ [][(Completes("reject") \/ \E r \in 1..MaxReq : Delegated(r))
             => sessions' = sessions]_vars

\* a handshake whose transport minted no id has returned; the table still
\* holds the one session registered before
C29_Witness ==
    /\ lastDone.route = "initialize"
    /\ lastDone.resp.status = 406
    /\ nreq = 2
    /\ MapKeys(sessions) = {1}

\* C30: a session's record is the same for as long as it is in the table; a
\* sweep removes exactly the sessions older than SESSION_MAX_AGE, whatever
\* requests are in flight; and a request is delegated only to a session that
\* is in the table, so that a request carrying the id of a removed session
\* is rejected.
C30_CreatedAtNeverRenewed ==
    /\ [][\A i \in 1..Len(sessions) :
             MapHas(sessions', sessions[i].id)
                 => SM_get(sessions', sessions[i].id) = sessions[i].data]_vars
    /\ [][SweepRemoves =>
             sessions' = SelectSeq(sessions,
                            LAMBDA e : now - e.data.createdAt <= SESSION_MAX_AGE)]_vars
    /\ [][\A r \in 1..MaxReq : Delegated(r) => MapHas(sessions, req'[r].hdr)]_vars
    /\ [][(Completes("reject") /\ lastDone'.hdr \in registered)
             => ~MapHas(sessions, lastDone'.hdr)]_vars

\* three requests: the handshake of session 1, a request delegated to it and
\* still in flight, and a request with id 1 rejected after the sweep
C30_Witness ==
    /\ shutPc = "running"
    /\ registered = {1}
    /\ nreq = 3
    /\ \E r \in 1..MaxReq : req[r].pc = "delegated" /\ req[r].hdr = 1
    /\ lastDone.route = "reject"
    /\ lastDone.hdr = 1
    /\ SM_count(sessions) = 0

====
